---- MODULE Spec2Model ----
(***************************************************************************)
(* A model of the RAG demo application: the token chunker and its          *)
(* character fallback (document_processor.py), the per-file processing     *)
(* pipeline (app.py process_documents), and the RAG service with the       *)
(* session handlers that drive it (rag_service.py, app.py).                *)
(*                                                                         *)
(* Text is a sequence of one-character strings over Chars; a token is a    *)
(* non-empty sequence of characters; a token list is a sequence of tokens. *)
(***************************************************************************)
EXTENDS Integers, Sequences, FiniteSets, TLC

\* ------------------------------------------------------------------ bounds
\* longest text handed to the chunker
MaxLen == 6
\* largest chunk size (in tokens) the chunker is constructed with
MaxS == 5

\* the characters of the modelled texts: a letter, the sentence delimiter
\* and a whitespace character
Chars == {"a", ".", " "}

RECURSIVE TextsOfLen(_)
TextsOfLen(n) ==
    IF n = 0 THEN {<<>>}
    ELSE {Append(t, c) : t \in TextsOfLen(n - 1), c \in Chars}

TextsUpTo(n) == UNION {TextsOfLen(k) : k \in 0..n}

\* ------------------------------------------------------- string operations
Text == Seq(Chars)

\* str.strip(): drop leading and trailing whitespace
LStrip[t \in Text] == IF t # <<>> /\ Head(t) = " " THEN LStrip[Tail(t)] ELSE t

RStrip[t \in Text] ==
    IF t # <<>> /\ t[Len(t)] = " " THEN RStrip[SubSeq(t, 1, Len(t) - 1)] ELSE t

Strip(t) == RStrip[LStrip[t]]

\* str.split('.'): the fragments between the delimiters (always at least one)
SplitDot[t \in Text] ==
    IF \A i \in 1..Len(t) : t[i] # "." THEN <<t>>
    ELSE LET k == CHOOSE i \in 1..Len(t) :
                       t[i] = "." /\ \A j \in 1..(i - 1) : t[j] # "."
         IN  <<SubSeq(t, 1, k - 1)>> \o SplitDot[SubSeq(t, k + 1, Len(t))]

\* '.'.join(frags)
JoinDot[frags \in Seq(Text)] ==
    IF frags = <<>> THEN <<>>
    ELSE IF Len(frags) = 1 THEN frags[1]
    ELSE frags[1] \o <<".">> \o JoinDot[Tail(frags)]

\* seq[i:j] with Python's slice semantics (negative indices count from the
\* end, out-of-range indices are clamped)
PyIndex(n, i) == IF i < 0 THEN (IF i + n < 0 THEN 0 ELSE i + n)
                 ELSE (IF i > n THEN n ELSE i)

PySlice(s, i, j) ==
    LET lo == PyIndex(Len(s), i)
        hi == PyIndex(Len(s), j)
    IN  IF lo >= hi THEN <<>> ELSE SubSeq(s, lo + 1, hi)

\* --------------------------------------------------------------- tokenizer
\* encoding.encode: the byte-pair tokenizer groups a punctuation or space
\* character with the letters that follow it (".com", " the" are single
\* tokens of cl100k_base); every other character is a token of its own.
Encode[t \in Text] ==
    IF t = <<>> THEN <<>>
    ELSE IF Len(t) >= 2 /\ t[1] \in {".", " "} /\ t[2] = "a"
         THEN <<SubSeq(t, 1, 2)>> \o Encode[SubSeq(t, 3, Len(t))]
         ELSE <<SubSeq(t, 1, 1)>> \o Encode[Tail(t)]

\* encoding.decode: the concatenation of the tokens' characters
Decode[toks \in Seq(Text)] ==
    IF toks = <<>> THEN <<>> ELSE Head(toks) \o Decode[Tail(toks)]

\* ------------------------------------------------------------------- state
VARIABLES
    text,           \* the text being split
    chunk_size,     \* DocumentProcessor.chunk_size
    chunk_overlap,  \* DocumentProcessor.chunk_overlap
    tokFails,       \* whether encoding.encode raises on this text
    tokens,         \* the token list of text
    start,          \* the loop variable of the running split
    chunks,         \* the chunk list under construction
    covered,        \* the token positions that were in tokens[start:end] so far
    cpc,            \* position in the chunker: idle, split, loop, simple, returned
    \* process_documents (app.py)
    files,          \* uploaded_files of the running process_documents call
    fi,             \* position of the for loop over the files (1-based)
    all_documents,  \* the aggregated Chunk Records
    report,         \* the per-file messages shown (st.success / st.error)
    ppc,            \* position in process_documents: idle, file, chunking
    \* RAGService (rag_service.py) and the external services behind it
    ipc,            \* position in _initialize_clients, then ready or failed
    attempt,        \* the loop variable of the running retry loop
    tries,          \* connection attempts made per service by the running constructor
    sleeps,         \* time.sleep(retry_delay) calls made by the running constructor
    ollama_ok,      \* the generation service answered list()
    chroma_ok,      \* the vector store answered heartbeat()
    collection,     \* self.collection: none, live, or stale (its collection is gone)
    coll_exists,    \* the vector store holds a collection named "documents"
    coll,           \* the records of that collection, in insertion order
    \* st.session_state and what the page shows (app.py)
    documents_loaded,
    available_models,
    chat_history,
    gen_log,        \* the context sizes generate_response was called with so far
    last_op         \* the last request of the page and its outcome (for a search
                    \* also whether collection.query raised)

chunkVars == <<text, chunk_size, chunk_overlap, tokFails, tokens, start, chunks,
               covered, cpc>>
pipeVars == <<files, fi, all_documents, report, ppc>>
svcVars == <<ipc, attempt, tries, sleeps, ollama_ok, chroma_ok, collection,
             coll_exists, coll>>
sessVars == <<documents_loaded, available_models, chat_history, gen_log, last_op>>
vars == <<chunkVars, pipeVars, svcVars, sessVars>>

\* the chunk list is recorded up to this many entries, after which the
\* record starts over; a split that returns never visits a window start
\* twice and its starts lie between -(MaxLen + MaxS) and MaxLen, so only a
\* split that never returns gets here
MaxChunks == 2 * (MaxLen + MaxS) + 1

Record(cs, c) == IF Len(cs) < MaxChunks THEN Append(cs, c) ELSE <<c>>

\* ----------------------------------------------- _split_text_into_chunks
\* lines 123-137: the end of the window that starts at st
WindowEnd(toks, st, S) ==
    LET end0 == st + S
    IN  IF end0 < Len(toks)
        THEN LET sentences == SplitDot[Decode[PySlice(toks, st, end0)]]
             IN  IF Len(sentences) > 1
                 THEN LET kept == JoinDot[SubSeq(sentences, 1, Len(sentences) - 1)]
                                      \o <<".">>
                      IN  st + Len(Encode[kept])
                 ELSE end0
        ELSE end0

\* the positions (from zero) of a list of n items that the slice [i:j] holds
SlicePositions(n, i, j) == {p \in 0..(n - 1) : PyIndex(n, i) <= p /\ p < PyIndex(n, j)}

\* lines 140-141: the text of the chunk
ChunkText(toks, st, en) == Decode[PySlice(toks, st, en)]

\* lines 147-151: the next window start
NextStart(en, O) == IF en - O >= en THEN en ELSE en - O

\* a variant of the append that keeps a chunk that is blank
Emit_KeepBlank(cs, chunk) == Record(cs, Strip(chunk))

\* lines 143-144: only a chunk that is non-empty after trimming is kept
Emit(cs, chunk) == IF Strip(chunk) # <<>> THEN Record(cs, Strip(chunk)) ELSE cs

\* line 116 succeeds: tokens, chunks and start are set up
Tokenize ==
    /\ cpc = "split"
    /\ ~tokFails
    /\ tokens' = Encode[text]
    /\ chunks' = <<>>
    /\ covered' = {}
    /\ start' = 0
    /\ cpc' = "loop"
    /\ UNCHANGED <<text, chunk_size, chunk_overlap, tokFails>>
    /\ UNCHANGED <<pipeVars, svcVars, sessVars>>

\* line 116 raises: lines 155-158 hand the text to _simple_text_split
TokenizeFails ==
    /\ cpc = "split"
    /\ tokFails
    /\ chunks' = <<>>
    /\ covered' = {}
    /\ start' = 0
    /\ cpc' = "simple"
    /\ UNCHANGED <<text, chunk_size, chunk_overlap, tokFails, tokens>>
    /\ UNCHANGED <<pipeVars, svcVars, sessVars>>

\* one iteration of the while loop of lines 121-151
ChunkStep ==
    /\ cpc = "loop"
    /\ start < Len(tokens)
    /\ \E end \in {WindowEnd(tokens, start, chunk_size)} :
          /\ chunks' = Emit(chunks, ChunkText(tokens, start, end))
          /\ covered' = covered \cup SlicePositions(Len(tokens), start, end)
          /\ start' = NextStart(end, chunk_overlap)
    /\ UNCHANGED <<text, chunk_size, chunk_overlap, tokFails, tokens, cpc>>
    /\ UNCHANGED <<pipeVars, svcVars, sessVars>>

\* line 153: the loop condition fails and the chunk list is returned
ChunkReturn ==
    /\ cpc = "loop"
    /\ start >= Len(tokens)
    /\ cpc' = "returned"
    /\ UNCHANGED <<text, chunk_size, chunk_overlap, tokFails, tokens, start, chunks,
                   covered>>
    /\ UNCHANGED <<pipeVars, svcVars, sessVars>>

\* --------------------------------------------------- _simple_text_split
\* lines 162-163
CharChunkSize(S) == S * 4
CharOverlap(O) == O * 4

\* lines 175-179
SimpleNextStart(en, co) == IF en - co >= en THEN en ELSE en - co

\* one iteration of the while loop of lines 168-179
SimpleStep ==
    /\ cpc = "simple"
    /\ start < Len(text)
    /\ \E end \in {start + CharChunkSize(chunk_size)} :
          /\ chunks' = Emit(chunks, PySlice(text, start, end))
          /\ UNCHANGED covered
          /\ start' = SimpleNextStart(end, CharOverlap(chunk_overlap))
    /\ UNCHANGED <<text, chunk_size, chunk_overlap, tokFails, tokens, cpc>>
    /\ UNCHANGED <<pipeVars, svcVars, sessVars>>

\* line 181
SimpleReturn ==
    /\ cpc = "simple"
    /\ start >= Len(text)
    /\ cpc' = "returned"
    /\ UNCHANGED <<text, chunk_size, chunk_overlap, tokFails, tokens, start, chunks,
                   covered>>
    /\ UNCHANGED <<pipeVars, svcVars, sessVars>>

\* ------------------------------------------------- process_uploaded_file
\* the extension of an uploaded file's name (filename.lower().split('.')[-1])
Ext(name) == IF name = "f1.txt" THEN "txt" ELSE "pdf"

\* _get_file_type, lines 61-71
GetFileType(ext) ==
    CASE ext = "pdf" -> "pdf"
      [] ext \in {"docx", "doc"} -> "docx"
      [] ext = "txt" -> "txt"
      [] OTHER -> "unsupported"

\* lines 25-30: a txt file is decoded as it is, the pdf and docx extractors
\* return their text stripped (lines 83, 106)
ExtractText(f) ==
    IF GetFileType(Ext(f.name)) = "txt" THEN f.text ELSE Strip(f.text)

\* lines 19-35: the file raises before it is split (its content cannot be
\* read, its type is not supported, or it holds no text)
FileRaises(f) ==
    \/ ~f.ok
    \/ GetFileType(Ext(f.name)) = "unsupported"
    \/ Strip(ExtractText(f)) = <<>>

\* a variant of the numbering that counts from one
ChunkIndex_OneBased(i) == i

\* line 48: enumerate() counts from zero
ChunkIndex(i) == i - 1

\* lines 41-52: the Chunk Records of one file
MakeDocuments(filename, file_type, cs) ==
    [i \in 1..Len(cs) |->
        [content |-> cs[i],
         metadata |-> [filename |-> filename,
                       file_type |-> file_type,
                       chunk_index |-> ChunkIndex(i),
                       total_chunks |-> Len(cs)]]]

\* --------------------------------------------------------- add_documents
\* hashlib.md5(x).hexdigest(): a digest that stands for its input
Md5(x) == <<"md5", x>>

\* json.dumps(metadata, sort_keys=True): the key/value pairs in key order
SortedKeys == <<"chunk_index", "file_type", "filename", "total_chunks">>
JsonDumps(metadata) ==
    [i \in 1..Len(SortedKeys) |-> <<SortedKeys[i], metadata[SortedKeys[i]]>>]

\* _generate_doc_id, lines 129-134
GenerateDocId(content, metadata) == <<Md5(content), Md5(JsonDumps(metadata))>>

\* lines 105-113: the ids, texts and metadatas handed to the collection
AddEntries(docs) ==
    [i \in 1..Len(docs) |->
        [id |-> GenerateDocId(docs[i].content, docs[i].metadata),
         document |-> docs[i].content,
         metadata |-> docs[i].metadata]]

HasDuplicateIds(es) ==
    \E i \in 1..Len(es) : \E j \in (i + 1)..Len(es) : es[i].id = es[j].id

HasId(c, id) == \E k \in 1..Len(c) : c[k].id = id

\* a variant of the collection's add that stores every record it is given
CollectionAdd_KeepAll(c, es) == c \o es

\* collection.add (lines 116-120): a record whose id the collection holds
\* already is ignored, the others are stored
CollectionAdd(c, es) == c \o SelectSeq(es, LAMBDA e : ~HasId(c, e.id))

\* lines 100-127: add_documents returns False when the collection raises: the
\* request fails (fault), self.collection is not usable, or the batch
\* repeats an id
AddRaises(docs, handle, fault) ==
    \/ fault
    \/ handle # "live"
    \/ HasDuplicateIds(AddEntries(docs))

\* --------------------------------------------------- process_documents
RECURSIVE SeqsUpTo(_, _)
SeqsUpTo(S, n) ==
    IF n = 0 THEN {<<>>}
    ELSE LET shorter == SeqsUpTo(S, n - 1)
         IN  shorter \cup {Append(s, x) : s \in {q \in shorter : Len(q) = n - 1}, x \in S}

\* lines 226-230 of app.py: a batch B of files and parameters <<S, O>> from P
StartProcess(B, P) ==
    /\ ipc = "ready"
    /\ ppc = "idle"
    /\ \E b \in B : files' = b
    /\ \E p \in P : chunk_size' = p[1] /\ chunk_overlap' = p[2]
    /\ fi' = 1
    /\ all_documents' = <<>>
    /\ report' = <<>>
    /\ ppc' = "file"
    /\ last_op' = [op |-> "process", out |-> "running", n |-> 0]
    /\ UNCHANGED <<text, tokFails, tokens, start, chunks, covered, cpc>>
    /\ UNCHANGED svcVars
    /\ UNCHANGED <<documents_loaded, available_models, chat_history, gen_log>>

\* lines 238-239: the exception is caught inside the for loop, which goes on
\* with the next file
AfterFailure(i, n) == i + 1

\* lines 234-235, 238-239 with process_uploaded_file lines 19-35, 57-59: the
\* file raises, the error is shown for it
FileFails ==
    /\ ppc = "file"
    /\ fi <= Len(files)
    /\ FileRaises(files[fi])
    /\ report' = Append(report, [name |-> files[fi].name, status |-> "error",
                                 documents |-> <<>>])
    /\ fi' = AfterFailure(fi, Len(files))
    /\ UNCHANGED <<files, all_documents, ppc>>
    /\ UNCHANGED <<chunkVars, svcVars, sessVars>>

\* process_uploaded_file lines 20-38: the text is extracted and handed to
\* _split_text_into_chunks
FileSplit ==
    /\ ppc = "file"
    /\ fi <= Len(files)
    /\ ~FileRaises(files[fi])
    /\ text' = ExtractText(files[fi])
    /\ tokFails' \in BOOLEAN
    /\ tokens' = <<>>
    /\ start' = 0
    /\ chunks' = <<>>
    /\ covered' = {}
    /\ cpc' = "split"
    /\ ppc' = "chunking"
    /\ UNCHANGED <<chunk_size, chunk_overlap>>
    /\ UNCHANGED <<files, fi, all_documents, report>>
    /\ UNCHANGED <<svcVars, sessVars>>

\* process_uploaded_file lines 40-55 and app.py lines 236-237: the chunks
\* come back, the file's Chunk Records are built and appended
FileDone ==
    /\ ppc = "chunking"
    /\ cpc = "returned"
    /\ LET f == files[fi]
           documents == MakeDocuments(f.name, GetFileType(Ext(f.name)), chunks)
       IN  /\ all_documents' = all_documents \o documents
           /\ report' = Append(report, [name |-> f.name, status |-> "ok",
                                        documents |-> documents])
    /\ fi' = fi + 1
    /\ ppc' = "file"
    /\ cpc' = "idle"
    /\ text' = <<>>
    /\ tokens' = <<>>
    /\ start' = 0
    /\ chunks' = <<>>
    /\ covered' = {}
    /\ tokFails' = FALSE
    /\ UNCHANGED <<chunk_size, chunk_overlap, files>>
    /\ UNCHANGED <<svcVars, sessVars>>

\* the call returns: its locals are gone
ProcessReturns ==
    /\ ppc' = "idle"
    /\ files' = <<>>
    /\ fi' = 0
    /\ all_documents' = <<>>
    /\ report' = <<>>
    /\ UNCHANGED chunkVars

\* a variant of the page that sets the flag whatever add_documents returned
LoadedAfterAdd_Always(success, loaded) == TRUE

\* app.py lines 244-248: documents_loaded is set only `if success:`
LoadedAfterAdd(success, loaded) == IF success THEN TRUE ELSE loaded

\* lines 241-248: the batch produced records, which are handed to
\* add_documents; only a success sets documents_loaded (last_op.n: by how
\* much the count of the store went up)
ProcessAdd ==
    /\ ppc = "file"
    /\ fi > Len(files)
    /\ all_documents # <<>>
    /\ \E fault \in BOOLEAN :
          IF AddRaises(all_documents, collection, fault)
          THEN /\ last_op' = [op |-> "add", out |-> "failed", n |-> 0]
               /\ documents_loaded' = LoadedAfterAdd(FALSE, documents_loaded)
               /\ UNCHANGED coll
          ELSE /\ coll' = CollectionAdd(coll, AddEntries(all_documents))
               /\ documents_loaded' = LoadedAfterAdd(TRUE, documents_loaded)
               /\ last_op' = [op |-> "add", out |-> "ok",
                               n |-> Len(CollectionAdd(coll, AddEntries(all_documents)))
                                         - Len(coll)]
    /\ ProcessReturns
    /\ UNCHANGED <<ipc, attempt, tries, sleeps, ollama_ok, chroma_ok, collection,
                   coll_exists>>
    /\ UNCHANGED <<available_models, chat_history, gen_log>>

\* lines 249-250: no file produced a record
ProcessNothing ==
    /\ ppc = "file"
    /\ fi > Len(files)
    /\ all_documents = <<>>
    /\ last_op' = [op |-> "process", out |-> "nothing", n |-> 0]
    /\ ProcessReturns
    /\ UNCHANGED svcVars
    /\ UNCHANGED <<documents_loaded, available_models, chat_history, gen_log>>

\* ---------------------------------------------------- _initialize_clients
\* rag_service.py lines 26-27
max_retries == 10
retry_delay == 5

\* a variant of the retry test that never gives up
LastAttempt_Never(a) == FALSE

\* lines 39, 58: `attempt < max_retries - 1` fails on the last attempt
LastAttempt(a) == ~(a < max_retries - 1)

NoOp == [op |-> "none", out |-> "none", n |-> 0]

\* RAGService.__init__, lines 16-22, called from initialize_rag_service
ServiceInit ==
    /\ ipc = "ollama"
    /\ attempt = 0
    /\ tries = [ollama |-> 0, chroma |-> 0]
    /\ sleeps = 0
    /\ ollama_ok = FALSE
    /\ chroma_ok = FALSE
    /\ collection = "none"

\* lines 31-36: the generation service answers
OllamaConnects ==
    /\ ipc = "ollama"
    /\ tries' = [tries EXCEPT !.ollama = @ + 1]
    /\ ollama_ok' = TRUE
    /\ ipc' = "chroma"
    /\ attempt' = 0
    /\ UNCHANGED <<sleeps, chroma_ok, collection, coll_exists, coll>>
    /\ UNCHANGED <<chunkVars, pipeVars, sessVars>>

\* lines 37-42: it does not; sleep and try again, or raise after the last attempt
OllamaFails ==
    /\ ipc = "ollama"
    /\ tries' = [tries EXCEPT !.ollama = @ + 1]
    /\ IF LastAttempt(attempt)
       THEN /\ ipc' = "failed"
            /\ last_op' = [op |-> "init", out |-> "ollama_unavailable", n |-> 0]
            /\ UNCHANGED <<attempt, sleeps>>
       ELSE /\ sleeps' = sleeps + 1
            /\ attempt' = attempt + 1
            /\ UNCHANGED <<ipc, last_op>>
    /\ UNCHANGED <<ollama_ok, chroma_ok, collection, coll_exists, coll>>
    /\ UNCHANGED <<chunkVars, pipeVars>>
    /\ UNCHANGED <<documents_loaded, available_models, chat_history, gen_log>>

\* lines 46-55: the vector store answers
ChromaConnects ==
    /\ ipc = "chroma"
    /\ tries' = [tries EXCEPT !.chroma = @ + 1]
    /\ chroma_ok' = TRUE
    /\ ipc' = "collection"
    /\ attempt' = 0
    /\ UNCHANGED <<sleeps, ollama_ok, collection, coll_exists, coll>>
    /\ UNCHANGED <<chunkVars, pipeVars, sessVars>>

\* lines 56-61
ChromaFails ==
    /\ ipc = "chroma"
    /\ tries' = [tries EXCEPT !.chroma = @ + 1]
    /\ IF LastAttempt(attempt)
       THEN /\ ipc' = "failed"
            /\ last_op' = [op |-> "init", out |-> "chroma_unavailable", n |-> 0]
            /\ UNCHANGED <<attempt, sleeps>>
       ELSE /\ sleeps' = sleeps + 1
            /\ attempt' = attempt + 1
            /\ UNCHANGED <<ipc, last_op>>
    /\ UNCHANGED <<ollama_ok, chroma_ok, collection, coll_exists, coll>>
    /\ UNCHANGED <<chunkVars, pipeVars>>
    /\ UNCHANGED <<documents_loaded, available_models, chat_history, gen_log>>

\* the models get_available_models can report (lines 78-85): the list of the
\* generation service, or none when the request fails
ModelLists == {{}, {"llama2"}}

\* lines 63-73 and app.py lines 96-98: get_or_create_collection succeeds, the
\* constructor returns (its loop state is gone), the service is stored in
\* the session and the models are listed
CollectionReady ==
    /\ ipc = "collection"
    /\ collection' = "live"
    /\ coll_exists' = TRUE
    /\ ipc' = "ready"
    /\ attempt' = 0
    /\ tries' = [ollama |-> 1, chroma |-> 1]
    /\ sleeps' = 0
    /\ available_models' \in ModelLists
    /\ last_op' = [op |-> "init", out |-> "ok", n |-> 0]
    /\ UNCHANGED <<ollama_ok, chroma_ok, coll>>
    /\ UNCHANGED <<chunkVars, pipeVars>>
    /\ UNCHANGED <<documents_loaded, chat_history, gen_log>>

\* lines 74-76: get_or_create_collection raises and the constructor with it
CollectionFails ==
    /\ ipc = "collection"
    /\ ipc' = "failed"
    /\ last_op' = [op |-> "init", out |-> "collection_failed", n |-> 0]
    /\ UNCHANGED <<attempt, tries, sleeps, ollama_ok, chroma_ok, collection,
                   coll_exists, coll>>
    /\ UNCHANGED <<chunkVars, pipeVars>>
    /\ UNCHANGED <<documents_loaded, available_models, chat_history, gen_log>>

\* app.py lines 89-103, 115-116: the constructor raised, rag_service is still
\* None, the page stopped; the next run of the page constructs the service anew
Rerun ==
    /\ ipc = "failed"
    /\ ipc' = "ollama"
    /\ attempt' = 0
    /\ tries' = [ollama |-> 0, chroma |-> 0]
    /\ sleeps' = 0
    /\ ollama_ok' = FALSE
    /\ chroma_ok' = FALSE
    /\ collection' = "none"
    /\ UNCHANGED <<coll_exists, coll>>
    /\ UNCHANGED <<chunkVars, pipeVars, sessVars>>

\* ------------------------------------------------------ the page's handlers
\* most queries a session asks in the chat
MaxQueries == 1

\* app.py line 282
chat_n_results == 5

Idle == ipc = "ready" /\ ppc = "idle"

\* get_collection_stats, lines 190-200, called by every run of the page
\* (app.py line 159): the count, or 0 when the request raises
GetCollectionStats ==
    /\ Idle
    /\ \E fault \in BOOLEAN :
          IF fault \/ collection # "live"
          THEN last_op' = [op |-> "stats", out |-> "failed", n |-> 0]
          ELSE last_op' = [op |-> "stats", out |-> "ok", n |-> Len(coll)]
    /\ UNCHANGED <<chunkVars, pipeVars, svcVars>>
    /\ UNCHANGED <<documents_loaded, available_models, chat_history, gen_log>>

\* a variant of the clear that only fetches the collection again
Dropped_KeepsRecords(c) == c

\* delete_collection (line 206): the records go with the collection
Dropped(c) == <<>>

\* clear_collection, lines 202-212, and its button, app.py lines 168-174
\* (last_op.n: the records the store held when it was cleared)
ClearCollection ==
    /\ Idle
    /\ \E deleted \in BOOLEAN, recreated \in BOOLEAN :
          IF ~(deleted /\ coll_exists)
          THEN \* delete_collection raises: nothing changed
               /\ last_op' = [op |-> "clear", out |-> "failed", n |-> 0]
               /\ UNCHANGED <<coll, coll_exists, collection, documents_loaded>>
          ELSE IF ~recreated
          THEN \* the collection is gone and _initialize_collection raises
               /\ coll' = Dropped(coll)
               /\ coll_exists' = FALSE
               /\ collection' = IF collection = "none" THEN "none" ELSE "stale"
               /\ last_op' = [op |-> "clear", out |-> "failed", n |-> 0]
               /\ UNCHANGED documents_loaded
          ELSE /\ coll' = Dropped(coll)
               /\ coll_exists' = TRUE
               /\ collection' = "live"
               /\ documents_loaded' = FALSE
               /\ last_op' = [op |-> "clear", out |-> "ok", n |-> Len(coll)]
    /\ UNCHANGED <<ipc, attempt, tries, sleeps, ollama_ok, chroma_ok>>
    /\ UNCHANGED <<chunkVars, pipeVars>>
    /\ UNCHANGED <<available_models, chat_history, gen_log>>

\* collection.query: the nearest records first, at most n of them (the
\* ranking of the store is taken to be the insertion order)
QueryResults(c, n) == SubSeq(c, 1, IF Len(c) < n THEN Len(c) ELSE n)

\* lines 139-142: collection.query raises when the request fails (fault) or
\* self.collection is not usable
QueryRaises(handle, fault) == fault \/ handle # "live"

\* a variant of search_documents that formats the records whether or not
\* the query raised
SearchDocuments_Unguarded(c, handle, fault, n) ==
    [i \in 1..Len(QueryResults(c, n)) |->
        [content |-> QueryResults(c, n)[i].document,
         metadata |-> QueryResults(c, n)[i].metadata]]

\* search_documents, lines 136-159: the formatted results, or the empty list
\* when the query raises
SearchDocuments(c, handle, fault, n) ==
    IF fault \/ handle # "live"
    THEN <<>>
    ELSE [i \in 1..Len(QueryResults(c, n)) |->
            [content |-> QueryResults(c, n)[i].document,
             metadata |-> QueryResults(c, n)[i].metadata]]

\* a variant of the chat handler that generates whatever the search returned
ShouldGenerate_Always(relevant_docs) == TRUE

\* app.py line 284: `if relevant_docs:`
ShouldGenerate(relevant_docs) == relevant_docs # <<>>

\* a variant of the chat handler that keeps only the newest turn
AppendTurn_Replace(history, message) == <<message>>

\* app.py lines 275, 292: st.session_state.chat_history.append(message)
AppendTurn(history, message) == Append(history, message)

UserQueries == Len(SelectSeq(chat_history, LAMBDA m : m.role = "user"))

\* chat_interface, app.py lines 273-298, reached when documents are loaded
\* and a model is selected (lines 208-214)
ChatQuery ==
    /\ Idle
    /\ documents_loaded
    /\ available_models # {}
    /\ UserQueries < MaxQueries
    /\ \E fault \in BOOLEAN, generated \in BOOLEAN :
          LET relevant_docs == SearchDocuments(coll, collection, fault, chat_n_results)
              asked == AppendTurn(chat_history, [role |-> "user", content |-> "query"])
          IN  IF ShouldGenerate(relevant_docs)
                  THEN \* generate_response, lines 161-188: the answer, or the
                       \* text of the error
                       /\ gen_log' = gen_log \cup {Len(relevant_docs)}
                       /\ chat_history' = AppendTurn(asked,
                              [role |-> "assistant",
                               content |-> IF generated THEN "answer" ELSE "error"])
                       /\ last_op' = [op |-> "chat", out |-> "answered",
                                      n |-> Len(relevant_docs),
                                      raised |-> QueryRaises(collection, fault)]
                  ELSE /\ chat_history' = asked
                       /\ last_op' = [op |-> "chat", out |-> "no_relevant", n |-> 0,
                                      raised |-> QueryRaises(collection, fault)]
                       /\ UNCHANGED gen_log
    /\ UNCHANGED <<chunkVars, pipeVars, svcVars>>
    /\ UNCHANGED <<documents_loaded, available_models>>

\* chat_interface, app.py lines 301-303
ClearChat ==
    /\ Idle
    /\ documents_loaded
    /\ available_models # {}
    /\ chat_history' = <<>>
    /\ last_op' = [op |-> "clear_chat", out |-> "ok", n |-> 0]
    /\ UNCHANGED <<chunkVars, pipeVars, svcVars>>
    /\ UNCHANGED <<documents_loaded, available_models, gen_log>>

\* app.py line 310: the slider of the search tab
SearchSizes == 1..10

\* search_interface, app.py lines 305-340
Search ==
    /\ Idle
    /\ documents_loaded
    /\ \E fault \in BOOLEAN, n \in SearchSizes :
          LET results == SearchDocuments(coll, collection, fault, n)
          IN  last_op' = [op |-> "search",
                          out |-> IF results # <<>> THEN "found" ELSE "no_relevant",
                          n |-> Len(results),
                          raised |-> QueryRaises(collection, fault)]
    /\ UNCHANGED <<chunkVars, pipeVars, svcVars>>
    /\ UNCHANGED <<documents_loaded, available_models, chat_history, gen_log>>

\* pull_model and its button, lines 87-96 and app.py lines 143-154
PullModel ==
    /\ Idle
    /\ \E pulled \in BOOLEAN :
          IF pulled
          THEN /\ available_models' \in ModelLists
               /\ last_op' = [op |-> "pull", out |-> "ok", n |-> 0]
          ELSE /\ last_op' = [op |-> "pull", out |-> "failed", n |-> 0]
               /\ UNCHANGED available_models
    /\ UNCHANGED <<chunkVars, pipeVars, svcVars>>
    /\ UNCHANGED <<documents_loaded, chat_history, gen_log>>

\* ------------------------------------------------------ specifications
ChunkerIdle ==
    /\ text = <<>>
    /\ chunk_size = 1
    /\ chunk_overlap = 0
    /\ tokFails = FALSE
    /\ tokens = <<>>
    /\ start = 0
    /\ chunks = <<>>
    /\ covered = {}
    /\ cpc = "idle"

PipelineIdle ==
    /\ files = <<>>
    /\ fi = 0
    /\ all_documents = <<>>
    /\ report = <<>>
    /\ ppc = "idle"

SessionFresh ==
    /\ documents_loaded = FALSE
    /\ available_models = {}
    /\ chat_history = <<>>
    /\ gen_log = {}
    /\ last_op = NoOp

StoreFresh ==
    /\ coll_exists = FALSE
    /\ coll = <<>>

\* the state of a session whose service was constructed without a failure
ServiceReady ==
    /\ ipc = "ready"
    /\ attempt = 0
    /\ tries = [ollama |-> 1, chroma |-> 1]
    /\ sleeps = 0
    /\ ollama_ok = TRUE
    /\ chroma_ok = TRUE
    /\ collection = "live"
    /\ coll_exists = TRUE
    /\ coll = <<>>

\* --- the chunker on its own
\* the texts process_uploaded_file lets through (lines 34-35): not blank
ChunkerTexts == {t \in TextsUpTo(MaxLen) : Strip(t) # <<>>}

\* the valid parameters: 0 <= O < S
ValidParams == {p \in (1..MaxS) \X (0..MaxS) : p[2] < p[1]}

ChunkInit ==
    /\ text \in ChunkerTexts
    /\ \E p \in ValidParams : chunk_size = p[1] /\ chunk_overlap = p[2]
    /\ tokFails \in BOOLEAN
    /\ tokens = <<>>
    /\ start = 0
    /\ chunks = <<>>
    /\ covered = {}
    /\ cpc = "split"
    /\ PipelineIdle
    /\ ServiceReady
    /\ SessionFresh

ChunkNext ==
    \/ Tokenize
    \/ TokenizeFails
    \/ ChunkStep
    \/ ChunkReturn
    \/ SimpleStep
    \/ SimpleReturn

ChunkSpec == ChunkInit /\ [][ChunkNext]_vars

\* the interpreter always executes the next statement of a running call
FairChunkSpec ==
    /\ ChunkSpec
    /\ WF_vars(Tokenize)
    /\ WF_vars(TokenizeFails)
    /\ WF_vars(ChunkStep)
    /\ WF_vars(ChunkReturn)
    /\ WF_vars(SimpleStep)
    /\ WF_vars(SimpleReturn)

\* --- the chunker with the parameters the upload page offers
\* app.py line 193: st.slider("Chunk Size (tokens)", 500, 2000, 1000, 100)
UIChunkSizes == {500 + 100 * k : k \in 0..15}
\* app.py line 195: st.slider("Chunk Overlap (tokens)", 50, 500, 200, 50)
UIOverlaps == {50 + 50 * k : k \in 0..9}

\* longest text of this specification
MaxUILen == 2
UITexts == {t \in TextsUpTo(MaxUILen) : Strip(t) # <<>>}

\* app.py line 227: the processor is constructed with the two slider values
UIInit ==
    /\ text \in UITexts
    /\ chunk_size \in UIChunkSizes
    /\ chunk_overlap \in UIOverlaps
    /\ tokFails \in BOOLEAN
    /\ tokens = <<>>
    /\ start = 0
    /\ chunks = <<>>
    /\ covered = {}
    /\ cpc = "split"
    /\ PipelineIdle
    /\ ServiceReady
    /\ SessionFresh

UISpec == UIInit /\ [][ChunkNext]_vars

FairUISpec ==
    /\ UISpec
    /\ WF_vars(Tokenize)
    /\ WF_vars(TokenizeFails)
    /\ WF_vars(ChunkStep)
    /\ WF_vars(ChunkReturn)
    /\ WF_vars(SimpleStep)
    /\ WF_vars(SimpleReturn)

\* --- one call of process_documents
\* most files in a batch
MaxFiles == 2

PipeNames == {"f1.txt", "f2.pdf"}
PipeTexts == {<<" ">>, <<"a">>, <<"a", ".", " ", "a">>, <<".", " ", "a", " ", "a">>}
PipeFiles ==
    {[name |-> nm, ok |-> TRUE, text |-> t] : nm \in PipeNames, t \in PipeTexts}
        \cup {[name |-> nm, ok |-> FALSE, text |-> <<>>] : nm \in PipeNames}
PipeBatches == SeqsUpTo(PipeFiles, MaxFiles) \ {<<>>}
PipeParams == {<<1, 0>>, <<2, 1>>}

PipeInit ==
    /\ ChunkerIdle
    /\ PipelineIdle
    /\ ServiceReady
    /\ SessionFresh

\* the first call of process_documents of a session
PipeNext ==
    \/ (last_op = NoOp /\ StartProcess(PipeBatches, PipeParams))
    \/ FileFails
    \/ FileSplit
    \/ Tokenize
    \/ TokenizeFails
    \/ ChunkStep
    \/ ChunkReturn
    \/ SimpleStep
    \/ SimpleReturn
    \/ FileDone
    \/ ProcessAdd
    \/ ProcessNothing

PipeSpec == PipeInit /\ [][PipeNext]_vars

\* the interpreter always executes the next statement of a running call
FairPipeSpec ==
    /\ PipeSpec
    /\ WF_vars(FileFails)
    /\ WF_vars(FileSplit)
    /\ WF_vars(Tokenize)
    /\ WF_vars(TokenizeFails)
    /\ WF_vars(ChunkStep)
    /\ WF_vars(ChunkReturn)
    /\ WF_vars(SimpleStep)
    /\ WF_vars(SimpleReturn)
    /\ WF_vars(FileDone)
    /\ WF_vars(ProcessAdd)
    /\ WF_vars(ProcessNothing)

\* --- a session of the page
\* most files in a batch of the session
MaxSessionFiles == 1

SessionFiles ==
    { [name |-> "f1.txt", ok |-> TRUE, text |-> <<"a">>],
      [name |-> "f2.pdf", ok |-> TRUE, text |-> <<"a", ".", " ", "a">>],
      [name |-> "f2.pdf", ok |-> FALSE, text |-> <<>>] }
SessionBatches == SeqsUpTo(SessionFiles, MaxSessionFiles) \ {<<>>}
SessionParams == {<<2, 1>>}

Init ==
    /\ ChunkerIdle
    /\ PipelineIdle
    /\ ServiceInit
    /\ StoreFresh
    /\ SessionFresh

Next ==
    \/ OllamaConnects
    \/ OllamaFails
    \/ ChromaConnects
    \/ ChromaFails
    \/ CollectionReady
    \/ CollectionFails
    \/ Rerun
    \/ StartProcess(SessionBatches, SessionParams)
    \/ FileFails
    \/ FileSplit
    \/ Tokenize
    \/ TokenizeFails
    \/ ChunkStep
    \/ ChunkReturn
    \/ SimpleStep
    \/ SimpleReturn
    \/ FileDone
    \/ ProcessAdd
    \/ ProcessNothing
    \/ GetCollectionStats
    \/ ClearCollection
    \/ ChatQuery
    \/ ClearChat
    \/ Search
    \/ PullModel

Spec == Init /\ [][Next]_vars

\* ------------------------------------------------------------ properties
Returned == cpc = "returned"

AllChunksNonEmpty == \A i \in 1..Len(chunks) : Strip(chunks[i]) # <<>>

\* C1: for every non-empty text and every 0 <= O < S the split terminates,
\* returns at least one chunk, and every chunk is non-empty after trimming
\* (under FairChunkSpec)
C1_SplitTerminates == <>(Returned /\ Len(chunks) >= 1 /\ AllChunksNonEmpty)

\* C2: the window start strictly increases on every iteration of the token
\* loop
C2_StartAdvances == [][ChunkStep => start' > start]_vars

\* the text t cut immediately after its last '.'
HasDot(t) == \E i \in 1..Len(t) : t[i] = "."
UpToLastDot(t) ==
    SubSeq(t, 1, CHOOSE i \in 1..Len(t) :
                     t[i] = "." /\ \A j \in (i + 1)..Len(t) : t[j] # ".")

\* C3: for every non-final window (start + S < token count), the chunk is
\* the window cut immediately after its last '.' when it holds one, and the
\* full window of S tokens when it holds none
C3_SentenceSnap ==
    [][(ChunkStep /\ start + chunk_size < Len(tokens)) =>
          LET window == Decode[PySlice(tokens, start, start + chunk_size)]
          IN  chunks' = Emit(chunks, IF HasDot(window) THEN UpToLastDot(window)
                                     ELSE window)]_vars

\* C4: when tokenization fails, the character fallback terminates and
\* returns at least one chunk, every chunk non-empty (under FairChunkSpec)
C4_FallbackReturns ==
    (cpc = "simple") ~> (Returned /\ Len(chunks) >= 1 /\ AllChunksNonEmpty)

\* C4 witness: the fallback returned after more than one window, one of
\* them blank
C4_Witness ==
    /\ Returned
    /\ tokFails
    /\ start > CharChunkSize(chunk_size)
    /\ Len(chunks) >= 1
    /\ PySlice(text, 0, CharChunkSize(chunk_size)) # <<>>
    /\ Strip(PySlice(text, 0, CharChunkSize(chunk_size))) = <<>>

\* the Chunk Records of all_documents whose filename is nm
RecordsOf(nm) == SelectSeq(all_documents, LAMBDA d : d.metadata.filename = nm)

\* C5 as stated: for every filename, the chunk_index values of the batch's
\* Chunk Records with that filename are 0 .. total_chunks - 1, each once
C5_PerFilename ==
    \A nm \in PipeNames :
        \A i \in 1..Len(RecordsOf(nm)) :
            /\ RecordsOf(nm)[i].metadata.chunk_index = i - 1
            /\ RecordsOf(nm)[i].metadata.total_chunks = Len(RecordsOf(nm))

\* the Chunk Records FileDone appends to all_documents
Appended == SubSeq(all_documents', Len(all_documents) + 1, Len(all_documents'))

\* C5: for every processed file, its Chunk Records carry the file's name
\* and chunks in order, chunk_index running over 0 .. total_chunks - 1, each
\* index once, and total_chunks is the number of chunks of that file
C5_PerFile ==
    [][FileDone =>
          /\ Len(Appended) = Len(chunks)
          /\ \A i \in 1..Len(Appended) :
                /\ Appended[i].content = chunks[i]
                /\ Appended[i].metadata.filename = files[fi].name
                /\ Appended[i].metadata.chunk_index = i - 1
                /\ Appended[i].metadata.total_chunks = Len(chunks)]_vars

\* C5 witness: a batch with two files of the same name, both split, one of
\* them into several chunks
C5_Witness ==
    /\ Len(report) = 2
    /\ report[1].name = report[2].name
    /\ report[1].status = "ok" /\ report[2].status = "ok"
    /\ Len(report[2].documents) >= 2

\* the Chunk Records of the report's entries, in order
RECURSIVE Gathered(_)
Gathered(r) ==
    IF r = <<>> THEN <<>>
    ELSE Gathered(SubSeq(r, 1, Len(r) - 1)) \o r[Len(r)].documents

\* a file that raises is reported as an error for that file, the loop goes
\* on, and the aggregated list holds the records of the files that did not
\* raise, in file order
FailuresIsolated ==
    /\ ppc = "file" => Len(report) = fi - 1
    /\ ppc = "chunking" => Len(report) = fi - 1 /\ ~FileRaises(files[fi])
    /\ \A k \in 1..Len(report) :
          /\ report[k].name = files[k].name
          /\ (report[k].status = "error") = FileRaises(files[k])
          /\ report[k].status = "error" => report[k].documents = <<>>
    /\ all_documents = Gathered(report)

\* C6: in process_documents every file of the batch is processed, whatever
\* files before it did (under FairPipeSpec)
C6_EveryFileProcessed ==
    (ppc # "idle") ~> (ppc = "file" /\ fi > Len(files) /\ Len(report) = Len(files))

\* C7: a call of add_documents with Chunk Records that are all stored
\* already leaves the count of the store unchanged
C7_AddIdempotent ==
    [][(ProcessAdd /\ \A i \in 1..Len(all_documents) :
                          HasId(coll, AddEntries(all_documents)[i].id))
          => Len(coll') = Len(coll)]_vars

\* C7 witness: add_documents succeeded a second time with the same records
C7_Witness ==
    /\ last_op = [op |-> "add", out |-> "ok", n |-> 0]
    /\ coll # <<>>

\* C8 as stated: after clear_collection, get_collection_stats reports 0
C8_ClearThenZero ==
    [][(last_op.op = "clear" /\ last_op'.op = "stats") => last_op'.n = 0]_vars

\* C8: after a clear_collection that returned True the collection exists
\* anew and is empty, and a subsequent get_collection_stats reports 0
C8_ClearedThenZero ==
    [][(last_op.op = "clear" /\ last_op.out = "ok") =>
          /\ coll = <<>> /\ coll_exists /\ collection = "live"
          /\ (last_op'.op = "stats" => last_op'.n = 0)]_vars

\* C8 witness: a store that held records was cleared
C8_Witness ==
    /\ last_op.op = "clear" /\ last_op.out = "ok" /\ last_op.n > 0
    /\ coll = <<>>

\* C9 as stated: initialization ends with an error only when all attempts
\* for one service failed, and otherwise with the collection initialized
C9_FailsOnlyExhausted ==
    ipc = "failed" => last_op.out \in {"ollama_unavailable", "chroma_unavailable"}

\* C9: each service is attempted at most max_retries times, the generation
\* service first, with one delay after each failed attempt but the last;
\* initialization ends with an error when all attempts for a service failed
\* or when the collection cannot be initialized (which is not retried), and
\* otherwise with both clients connected and the collection initialized
C9_BoundedInit ==
    /\ tries.ollama <= max_retries /\ tries.chroma <= max_retries
    /\ tries.chroma > 0 => ollama_ok
    /\ ipc = "ollama" => attempt = tries.ollama /\ sleeps = tries.ollama
    /\ ipc = "chroma" => /\ attempt = tries.chroma
                         /\ sleeps = (tries.ollama - 1) + tries.chroma
    /\ ipc = "collection" => sleeps = (tries.ollama - 1) + (tries.chroma - 1)
    /\ ipc = "failed" =>
          \/ /\ last_op.out = "ollama_unavailable"
             /\ tries.ollama = max_retries /\ ~ollama_ok
             /\ sleeps = max_retries - 1
          \/ /\ last_op.out = "chroma_unavailable"
             /\ tries.chroma = max_retries /\ ollama_ok /\ ~chroma_ok
             /\ sleeps = (tries.ollama - 1) + (max_retries - 1)
          \/ /\ last_op.out = "collection_failed"
             /\ ollama_ok /\ chroma_ok /\ collection = "none"
    /\ ipc = "ready" => ollama_ok /\ chroma_ok /\ collection # "none"
    /\ (ipc = "ready" /\ last_op.op = "init") => collection = "live" /\ coll_exists

\* C9 witness: the vector store failed all its attempts after the generation
\* service had answered on its last one
C9_Witness ==
    /\ ipc = "failed"
    /\ tries = [ollama |-> max_retries, chroma |-> max_retries]
    /\ sleeps = 2 * (max_retries - 1)

\* C10: the chat handler never calls generate_response with an empty
\* sequence of results: when the search returns none, the query is recorded,
\* "no relevant" is reported and nothing is generated
C10_NoEmptyContext ==
    [][ChatQuery =>
          /\ 0 \notin gen_log'
          /\ last_op'.out = "no_relevant" =>
                /\ gen_log' = gen_log
                /\ chat_history' = Append(chat_history,
                                          [role |-> "user", content |-> "query"])
          /\ last_op'.out = "answered" => last_op'.n >= 1]_vars

\* C10 witness: a query whose search returned nothing
C10_Witness ==
    /\ last_op.op = "chat" /\ last_op.out = "no_relevant"
    /\ Len(chat_history) = 1

\* C11: search_documents returns to its caller whatever the store does:
\* every search of the search tab or of the chat that raised in the store,
\* or that found the store empty, returned the empty sequence, and results
\* are records the store holds now
C11_SearchReturnsEmpty ==
    [][last_op'.op \in {"search", "chat"} =>
          /\ (last_op'.raised \/ coll = <<>>) =>
                 last_op'.n = 0 /\ last_op'.out = "no_relevant"
          /\ last_op'.n <= Len(coll)
          /\ last_op'.out \in {"found", "no_relevant", "answered"}]_vars

\* C11 witness: a search of a store that holds records raised and reported
\* no results
C11_Witness ==
    /\ last_op.op = "search" /\ last_op.out = "no_relevant"
    /\ last_op.raised
    /\ coll # <<>>

\* C12: when add_documents returns False the store holds the records it
\* held before the call and documents_loaded is as it was
C12_FailedAddNoChange ==
    [][(ProcessAdd /\ last_op'.out = "failed") =>
          /\ coll' = coll
          /\ coll_exists' = coll_exists
          /\ documents_loaded' = documents_loaded]_vars

\* C12 witness: add_documents failed on a store that holds records
C12_Witness ==
    /\ last_op = [op |-> "add", out |-> "failed", n |-> 0]
    /\ coll # <<>>

IsPrefix(h, g) == Len(h) <= Len(g) /\ SubSeq(g, 1, Len(h)) = h

C14_NoContentLost ==
    (Returned /\ ~tokFails) => covered = 0..(Len(tokens) - 1)

\* C15: with every (chunk size, overlap) pair the upload page offers, each
\* taken to have overlap < chunk size, the split of a document returns
\* (under FairUISpec)
C15_UIConfigTerminates == <>Returned

====
